---- MODULE Spec2Model ----
(***************************************************************************)
(* Model of the pyarc2 binding layer (src/lib.rs).                         *)
(*                                                                         *)
(* The wrapper owns no state besides the native Instrument.  A state of    *)
(* the model is: the handles that were opened, the native instrument       *)
(* behind every handle (as far as the wrapper's documentation describes    *)
(* it: command buffer, instrument, output buffer), and the record of the   *)
(* last wrapper call: its arguments, the native invocations it made, what  *)
(* the native call answered and what the caller received.                  *)
(*                                                                         *)
(* libarc2 is an external library.  Its answers (Ok / Err, the data it     *)
(* returns) are chosen nondeterministically; its documented effects on     *)
(* the command buffer are those of the doc comments at the call sites.     *)
(***************************************************************************)
EXTENDS Integers, Sequences, FiniteSets, TLC

\* ------------------------------------------------------------------ bounds
NumHandles == 2
MaxBuf == 1
MaxHw == 1
MaxSlabs == 1
MaxClLen == 9
MaxCalls == 3

\* ------------------------------------------------------- program constants
ClusterCount == 8
NRows == 32
NCols == 32
AllLen == 64
HalfLen == 32

Unit == "()"

\* Option<T>
None == [some |-> FALSE]
Some(x) == [some |-> TRUE, v |-> x]

Handles == 1..NumHandles

\* ---------------------------------------------------------------- Result
Ok(v) == [ok |-> TRUE, val |-> v]
Err(e) == [ok |-> FALSE, val |-> e]

\* The broad categories of LLArC2Error
NativeErrors == {"FPGAError", "MemoryError"}

UnitResults == {Ok(Unit)} \cup {Err(e) : e \in NativeErrors}

\* -------------------------------------------------------- what a call gives
Return(v) == [kind |-> "ok", value |-> v]
PyValueError(msg) == [kind |-> "ValueError", value |-> msg]
PyException(msg) == [kind |-> "Exception", value |-> msg]
\* a Rust panic inside a #[pymethods] body reaches the caller as
\* pyo3_runtime.PanicException
Panic(msg) == [kind |-> "PanicException", value |-> msg]

ArC2Error_new_exception(err) == [kind |-> "ArC2Error", value |-> err]

\* ------------------------------------------------------------ mirror enums
PyBiasOrder_Rows == [_inner |-> "Rows"]
PyBiasOrder_Cols_as_rows == [_inner |-> "Rows"]
PyBiasOrder_Cols == [_inner |-> "Columns"]
PyBiasOrderValues == {PyBiasOrder_Rows, PyBiasOrder_Cols}
PyBiasOrder_from(order) == [_inner |-> order]
BiasOrder_from_Py(order) == order._inner

PyControlMode_Header == [_inner |-> "Header"]
PyControlMode_Internal == [_inner |-> "Internal"]
PyControlModeValues == {PyControlMode_Header, PyControlMode_Internal}
PyControlMode_from(order) == [_inner |-> order]
ControlMode_from_Py(order) == order._inner

PyDataMode_Words == [_inner |-> "Words"]
PyDataMode_Bits == [_inner |-> "Bits"]
PyDataMode_All == [_inner |-> "All"]
PyDataModeValues == {PyDataMode_Words, PyDataMode_Bits, PyDataMode_All}
PyDataMode_from(mode) == [_inner |-> mode]
DataMode_from_Py_stuck(mode) == "All"
DataMode_from_Py(mode) == mode._inner

PyReadType_Current == [_inner |-> "Current"]
PyReadType_Voltage == [_inner |-> "Voltage"]
PyReadTypeValues == {PyReadType_Current, PyReadType_Voltage}
PyReadType_from(rtype) == [_inner |-> rtype]
ReadType_from_Py(rtype) == rtype._inner

PyAuxDACFn_SELL == [_inner |-> "SELL"]
PyAuxDACFn_SELH == [_inner |-> "SELH"]
PyAuxDACFn_ARB1 == [_inner |-> "ARB1"]
PyAuxDACFn_ARB2 == [_inner |-> "ARB2"]
PyAuxDACFn_ARB3 == [_inner |-> "ARB3"]
PyAuxDACFn_ARB4 == [_inner |-> "ARB4"]
PyAuxDACFn_CREF == [_inner |-> "CREF"]
PyAuxDACFn_CSET == [_inner |-> "CSET"]
PyAuxDACFn_from(func) == [_inner |-> func]
AuxDACFn_from_Py(func) == func._inner
AuxDACFn_from_PyRef(func) == func._inner

PyWaitFor_Nanos(nanos) == [_inner |-> [tag |-> "Time", nanos |-> nanos]]
PyWaitFor_Iterations(iters) == [_inner |-> [tag |-> "Iterations", iters |-> iters]]
WaitFor_from_Py(waitfor) == waitfor._inner

\* ------------------------------------------------------------------ ReadAt
Voltages == {0, 1, 2}

PyReadAt_Bias == [_inner |-> [tag |-> "Bias"]]
PyReadAt_Arb(voltage) == [_inner |-> [tag |-> "Arb", v |-> voltage]]
PyReadAt_Never == [_inner |-> [tag |-> "Never"]]
ReadAt_from_Py(readat) == readat._inner

PyReadAt_voltage_any(self) ==
    IF self._inner.tag = "Never" THEN PyException("No voltage associated")
    ELSE Return(IF self._inner.tag = "Arb" THEN self._inner.v ELSE 0)

PyReadAt_voltage(self) ==
    IF self._inner.tag = "Arb" THEN Return(self._inner.v)
    ELSE PyException("No voltage associated")

\* --------------------------------------------------------------- ReadAfter
PyReadAfter_Pulse == [_inner |-> "Pulse"]
PyReadAfter_Ramp == [_inner |-> "Ramp"]
PyReadAfter_Block == [_inner |-> "Block"]
PyReadAfter_Never == [_inner |-> "Never"]
PyReadAfter_from(readafter) == [_inner |-> readafter]
ReadAfter_from_Py(readafter) == readafter._inner

PyReadAfter_from_str_default(r) ==
    CASE r = "pulse" -> Return(PyReadAfter_Pulse)
      [] r = "ramp" -> Return(PyReadAfter_Ramp)
      [] r = "block" -> Return(PyReadAfter_Block)
      [] OTHER -> Return(PyReadAfter_Never)

PyReadAfter_from_str(r) ==
    CASE r = "pulse" -> Return(PyReadAfter_Pulse)
      [] r = "ramp" -> Return(PyReadAfter_Ramp)
      [] r = "block" -> Return(PyReadAfter_Block)
      [] r = "never" -> Return(PyReadAfter_Never)
      [] OTHER -> PyValueError("Unknown ReadAfter")

\* the strings from_str is tried on
ReadAfterStrings ==
    {"pulse", "ramp", "block", "never",
     "", "Pulse", "RAMP", "Block", "Never", "pulse ", " never", "puls",
     "bias", "none"}

\* ------------------------------------------------------- argument domains
Nanos == {100}
Channels == {33}
ChanLists == {<<0, 33>>}
Masks == {255}
Addrs == {64}
DeviceIds == {0}
Firmwares == {"arc2.bin"}

\* a numpy array argument (PyReadonlyArray<usize, Ix1>): its elements and
\* whether it is laid out contiguously in memory
Arrays == [contiguous : BOOLEAN, data : ChanLists]

\* PyReadonlyArray::as_slice
as_slice(a) == IF a.contiguous THEN Ok(a.data) ELSE Err("NotContiguousError")

\* cluster timings handed to pulse_slice_fast_open: n rising timings, the
\* k-th of them None (k = 0: none of them), so that every position is told
\* apart from every other
ClNanos(n, k) == [i \in 1..n |-> IF i = k THEN None ELSE Some(10 * i)]
ClNanosInputs == {ClNanos(n, k) : n \in 0..MaxClLen, k \in {0, 3}}

\* ------------------------------------------------ the native Instrument
\* buffer: commands in the command buffer; hw: commands written to the
\* instrument and not consumed yet; lo..next-1: slabs in the output buffer
InstrumentInit == [buffer |-> 0, hw |-> 0, lo |-> 1, next |-> 1]

BufferingNatives ==
    {"add_delay", "ground_all", "ground_all_fast", "connect_to_gnd",
     "float_all", "open_channels", "config_channels", "config_aux_channels",
     "config_selectors", "pulse_one", "pulse_slice", "pulse_slice_masked",
     "pulse_slice_fast_open", "pulse_all", "set_control_mode", "set_logic",
     "generate_ramp", "generate_read_train", "generate_vread_train"}

Instrument_apply(st, name, res) ==
    IF ~res.ok THEN st
    ELSE IF name \in BufferingNatives THEN [st EXCEPT !.buffer = @ + 1]
    ELSE IF name = "execute" THEN [st EXCEPT !.hw = @ + st.buffer, !.buffer = 0]
    ELSE IF name = "pick_one" /\ st.lo < st.next THEN [st EXCEPT !.lo = @ + 1]
    ELSE st

\* keeps the buffers within the bounds of the model
Fits(st, name, res) ==
    /\ (res.ok /\ name \in BufferingNatives) => st.buffer < MaxBuf
    /\ (res.ok /\ name = "execute") => st.hw + st.buffer <= MaxHw

Instrument_busy(st) == st.hw > 0

SlabLen(mode) == IF mode = "All" THEN AllLen ELSE HalfLen
SlabData(id, mode) == [i \in 1..SlabLen(mode) |-> 100 * id + i]
SlabOf(arr) == arr[1] \div 100

Instrument_pick_one(st, mode, rtype) ==
    IF st.lo < st.next THEN Some(SlabData(st.lo, mode)) ELSE None

\* ------------------------------------------------------------------ state
\* trace: when switched on, the wrapper calls made on the handles and the
\* native invocations, each in the order they happened
VARIABLES opened, inst, last, waiting, picked, trace

vars == <<opened, inst, last, waiting, picked, trace>>

NoCall == [method |-> "none", handle |-> 0, args |-> << >>, native |-> << >>,
           outcome |-> Return(Unit)]

Init ==
    /\ opened = {}
    /\ inst = [h \in Handles |-> InstrumentInit]
    /\ last = NoCall
    /\ waiting = 0
    /\ picked = [h \in Handles |-> << >>]
    /\ trace = [on |-> FALSE, calls |-> << >>, natives |-> << >>]

NCall(name, nargs, res) == [name |-> name, args |-> nargs, res |-> res]

Callable(h) == h \in opened /\ waiting = 0

\* keeps the trace within the bounds of the model
Traceable == trace.on => Len(trace.calls) < MaxCalls

\* the trace after method m was called on h and made the native invocations
Traced(h, m, a, names) ==
    IF trace.on
    THEN [trace EXCEPT
            !.calls = Append(@, [method |-> m, handle |-> h, args |-> a]),
            !.natives = @ \o [i \in 1..Len(names) |-> [handle |-> h, name |-> names[i]]]]
    ELSE trace

\* the body reached the native method `name` once and got `res`
Invoke2(h, m, a, name, nargs, res, out) ==
    /\ Fits(inst[h], name, res)
    /\ inst' = [inst EXCEPT ![h] = Instrument_apply(Instrument_apply(@, name, res), name, res)]
    /\ last' = [method |-> m, handle |-> h, args |-> a,
                native |-> <<NCall(name, nargs, res), NCall(name, nargs, res)>>,
                outcome |-> out]
    /\ Traceable
    /\ trace' = Traced(h, m, a, <<name, name>>)

Invoke_flushing(h, m, a, name, nargs, res, out) ==
    /\ Fits(inst[h], name, res)
    /\ inst' = [inst EXCEPT ![h] =
                    Instrument_apply(Instrument_apply(@, name, res), "execute", res)]
    /\ last' = [method |-> m, handle |-> h, args |-> a,
                native |-> <<NCall(name, nargs, res), NCall("execute", << >>, res)>>,
                outcome |-> out]
    /\ Traceable
    /\ trace' = Traced(h, m, a, <<name, "execute">>)

\* the native invocation overtakes the ones made before it
Invoke_overtaking(h, m, a, name, nargs, res, out) ==
    /\ Fits(inst[h], name, res)
    /\ inst' = [inst EXCEPT ![h] = Instrument_apply(@, name, res)]
    /\ last' = [method |-> m, handle |-> h, args |-> a,
                native |-> <<NCall(name, nargs, res)>>, outcome |-> out]
    /\ Traceable
    /\ trace' = IF trace.on
                 THEN [trace EXCEPT
                         !.calls = Append(@, [method |-> m, handle |-> h, args |-> a]),
                         !.natives = <<[handle |-> h, name |-> name]>> \o @]
                 ELSE trace

Invoke(h, m, a, name, nargs, res, out) ==
    /\ Fits(inst[h], name, res)
    /\ inst' = [inst EXCEPT ![h] = Instrument_apply(@, name, res)]
    /\ last' = [method |-> m, handle |-> h, args |-> a,
                native |-> <<NCall(name, nargs, res)>>, outcome |-> out]
    /\ Traceable
    /\ trace' = Traced(h, m, a, <<name>>)

\* the body left before it reached a native method
Bail(h, m, a, out) ==
    /\ inst' = inst
    /\ last' = [method |-> m, handle |-> h, args |-> a, native |-> << >>,
                outcome |-> out]
    /\ Traceable
    /\ trace' = Traced(h, m, a, << >>)

\* match .. { Ok(_) => Ok(slf), Err(err) => Err(ArC2Error::new_exception(err)) }
OkSlfOrErr_other(slf, res) ==
    IF res.ok THEN Return(IF slf = 1 THEN NumHandles ELSE 1)
    ELSE ArC2Error_new_exception(res.val)

OkSlfOrErr(slf, res) ==
    IF res.ok THEN Return(slf) ELSE ArC2Error_new_exception(res.val)

\* match .. { Ok(v) => Ok(v), Err(err) => Err(ArC2Error::new_exception(err)) }
OkValOrErr(res) ==
    IF res.ok THEN Return(res.val) ELSE ArC2Error_new_exception(res.val)

\* Result::unwrap
unwrap(res) == IF res.ok THEN Return(res.val) ELSE Panic(res.val)

\* ------------------------------------------------------- numpy conversion
\* Array::from(vec).into_pyarray(py): a one-dimensional array of the elements
Array_from(v) == [shape |-> <<Len(v)>>, elems |-> v]

\* Array::from_shape_vec((rows, cols), v): the default (row-major) layout,
\* a ShapeError when the element count is not rows * cols
\* the vector becomes the storage of the array; element (r, c) is found at
\* offset r * strides[1] + c * strides[2]
Array_from_shape_vec_colmajor(rows, cols, v) ==
    IF Len(v) # rows * cols THEN Err("ShapeError")
    ELSE Ok([shape |-> <<rows, cols>>, strides |-> <<1, rows>>, elems |-> v])

Array_from_shape_vec(rows, cols, v) ==
    IF Len(v) # rows * cols THEN Err("ShapeError")
    ELSE Ok([shape |-> <<rows, cols>>, strides |-> <<cols, 1>>, elems |-> v])

\* element (r, c) of a two-dimensional array, r and c counted from 0
At(array, r, c) == array.elems[r * array.strides[1] + c * array.strides[2] + 1]

\* what the native reads answer
OneResults == {Ok(7)} \cup {Err(e) : e \in NativeErrors}
SliceResults == {Ok(<<5, 6>>)} \cup {Err(e) : e \in NativeErrors}
Iota(n) == [i \in 1..n |-> i - 1]
AllData == {Iota(NRows * NCols), Iota(NRows * NCols - 1), << >>}
AllResults == {Ok(d) : d \in AllData} \cup {Err(e) : e \in NativeErrors}
IdsResults == {Ok(<< >>), Ok(<<0, 1>>)} \cup {Err(e) : e \in NativeErrors}

\* ---------------------------------------------------------------- actions
new(h, id, fw) ==
    /\ waiting = 0
    /\ h \notin opened
    /\ \E res \in UnitResults :
        /\ last' = [method |-> "new", handle |-> h, args |-> <<id, fw>>,
                    native |-> <<NCall("open_with_fw", <<id, fw, TRUE>>, res)>>,
                    outcome |-> IF res.ok THEN Return(h)
                                ELSE ArC2Error_new_exception(res.val)]
        /\ opened' = IF res.ok THEN opened \cup {h} ELSE opened
    /\ Traceable
    /\ trace' = Traced(h, "new", <<id, fw>>, <<"open_with_fw">>)
    /\ UNCHANGED <<inst, waiting, picked>>

delay(h, nanos) ==
    /\ Callable(h)
    /\ \E res \in UnitResults :
        Invoke(h, "delay", <<nanos>>, "add_delay", <<nanos>>, res, OkSlfOrErr(h, res))
    /\ UNCHANGED <<opened, waiting, picked>>

ground_all(h) ==
    /\ Callable(h)
    /\ \E res \in UnitResults :
        Invoke(h, "ground_all", << >>, "ground_all", << >>, res, OkSlfOrErr(h, res))
    /\ UNCHANGED <<opened, waiting, picked>>

ground_all_fast(h) ==
    /\ Callable(h)
    /\ \E res \in UnitResults :
        Invoke(h, "ground_all_fast", << >>, "ground_all_fast", << >>, res,
               OkSlfOrErr(h, res))
    /\ UNCHANGED <<opened, waiting, picked>>

connect_to_gnd(h, chans) ==
    /\ Callable(h)
    /\ LET slice == unwrap(as_slice(chans)) IN
        IF slice.kind # "ok" THEN Bail(h, "connect_to_gnd", <<chans>>, slice)
        ELSE \E res \in UnitResults :
            Invoke(h, "connect_to_gnd", <<chans>>, "connect_to_gnd",
                   <<slice.value>>, res, OkSlfOrErr(h, res))
    /\ UNCHANGED <<opened, waiting, picked>>

float_all(h) ==
    /\ Callable(h)
    /\ \E res \in UnitResults :
        Invoke(h, "float_all", << >>, "float_all", << >>, res, OkSlfOrErr(h, res))
    /\ UNCHANGED <<opened, waiting, picked>>

open_channels(h, channels) ==
    /\ Callable(h)
    /\ \E res \in UnitResults :
        Invoke(h, "open_channels", <<channels>>, "open_channels", <<channels>>,
               res, OkSlfOrErr(h, res))
    /\ UNCHANGED <<opened, waiting, picked>>

config_channels(h, input, base) ==
    /\ Callable(h)
    /\ \E res \in UnitResults :
        Invoke(h, "config_channels", <<input, base>>, "config_channels",
               <<input, base>>, res, OkSlfOrErr(h, res))
    /\ UNCHANGED <<opened, waiting, picked>>

config_aux_channels(h, voltages) ==
    /\ Callable(h)
    /\ LET rust_input == [i \in 1..Len(voltages) |->
                            <<AuxDACFn_from_PyRef(voltages[i][1]), voltages[i][2]>>]
       IN \E res \in UnitResults :
            Invoke(h, "config_aux_channels", <<voltages>>, "config_aux_channels",
                   <<rust_input>>, res, OkSlfOrErr(h, res))
    /\ UNCHANGED <<opened, waiting, picked>>

config_selectors(h, selectors) ==
    /\ Callable(h)
    /\ \E res \in UnitResults :
        Invoke(h, "config_selectors", <<selectors>>, "config_selectors",
               <<selectors>>, res, OkSlfOrErr(h, res))
    /\ UNCHANGED <<opened, waiting, picked>>

read_one(h, low, high, vread) ==
    /\ Callable(h)
    /\ \E res \in OneResults :
        Invoke(h, "read_one", <<low, high, vread>>, "read_one",
               <<low, high, vread>>, res, unwrap(res))
    /\ UNCHANGED <<opened, waiting, picked>>

read_slice(h, chan, vread) ==
    /\ Callable(h)
    /\ \E res \in SliceResults :
        LET data == unwrap(res) IN
        Invoke(h, "read_slice", <<chan, vread>>, "read_slice", <<chan, vread>>, res,
               IF data.kind = "ok" THEN Return(Array_from(data.value)) ELSE data)
    /\ UNCHANGED <<opened, waiting, picked>>

read_slice_masked(h, chan, mask, vread) ==
    /\ Callable(h)
    /\ LET slice == unwrap(as_slice(mask)) IN
        IF slice.kind # "ok"
        THEN Bail(h, "read_slice_masked", <<chan, mask, vread>>, slice)
        ELSE \E res \in SliceResults :
            LET data == unwrap(res) IN
            Invoke(h, "read_slice_masked", <<chan, mask, vread>>,
                   "read_slice_masked", <<chan, slice.value, vread>>, res,
                   IF data.kind = "ok" THEN Return(Array_from(data.value)) ELSE data)
    /\ UNCHANGED <<opened, waiting, picked>>

read_all(h, vread, order) ==
    /\ Callable(h)
    /\ \E res \in AllResults :
        LET data == unwrap(res)
            array == IF data.kind = "ok"
                     THEN unwrap(Array_from_shape_vec(NRows, NCols, data.value))
                     ELSE data
        IN Invoke(h, "read_all", <<vread, order>>, "read_all",
                  <<vread, BiasOrder_from_Py(order)>>, res, array)
    /\ UNCHANGED <<opened, waiting, picked>>

\* Option::unwrap_or
unwrap_or_false(opt, default) == IF opt.some THEN opt.v ELSE FALSE

unwrap_or(opt, default) == IF opt.some THEN opt.v ELSE default

OptBools == {None, Some(TRUE), Some(FALSE)}

read_slice_open(h, highs, ground_after) ==
    /\ Callable(h)
    /\ LET slice == unwrap(as_slice(highs))
           ground == unwrap_or(ground_after, TRUE)
       IN IF slice.kind # "ok"
          THEN Bail(h, "read_slice_open", <<highs, ground_after>>, slice)
          ELSE \E res \in SliceResults :
              LET data == unwrap(res) IN
              Invoke(h, "read_slice_open", <<highs, ground_after>>,
                     "read_slice_open", <<slice.value, ground>>, res,
                     IF data.kind = "ok" THEN Return(Array_from(data.value)) ELSE data)
    /\ UNCHANGED <<opened, waiting, picked>>

pulse_one(h, low, high, voltage, nanos) ==
    /\ Callable(h)
    /\ \E res \in UnitResults :
        Invoke(h, "pulse_one", <<low, high, voltage, nanos>>, "pulse_one",
               <<low, high, voltage, nanos>>, res, OkSlfOrErr(h, res))
    /\ UNCHANGED <<opened, waiting, picked>>

pulse_slice(h, chan, voltage, nanos) ==
    /\ Callable(h)
    /\ \E res \in UnitResults :
        Invoke(h, "pulse_slice", <<chan, voltage, nanos>>, "pulse_slice",
               <<chan, voltage, nanos>>, res, OkSlfOrErr(h, res))
    /\ UNCHANGED <<opened, waiting, picked>>

pulse_slice_masked(h, chan, voltage, nanos, mask) ==
    /\ Callable(h)
    /\ LET actual_mask == unwrap(as_slice(mask)) IN
        IF actual_mask.kind # "ok"
        THEN Bail(h, "pulse_slice_masked", <<chan, voltage, nanos, mask>>, actual_mask)
        ELSE \E res \in UnitResults :
            Invoke(h, "pulse_slice_masked", <<chan, voltage, nanos, mask>>,
                   "pulse_slice_masked", <<chan, actual_mask.value, voltage, nanos>>,
                   res, OkSlfOrErr(h, res))
    /\ UNCHANGED <<opened, waiting, picked>>

\* cl_nanos.len() != 8
cl_nanos_rejected_short(cl_nanos) == Len(cl_nanos) < ClusterCount

cl_nanos_rejected(cl_nanos) == Len(cl_nanos) # ClusterCount

\* cl_nanos[0..8].try_into()
first_eight(cl_nanos) == SubSeq(cl_nanos, 1, ClusterCount)

pulse_slice_fast_open(h, chans, cl_nanos, preset_state) ==
    /\ Callable(h)
    /\ IF cl_nanos_rejected(cl_nanos)
       THEN Bail(h, "pulse_slice_fast_open", <<chans, cl_nanos, preset_state>>,
                 PyValueError("Need 8 arguments for cluster timings"))
       ELSE IF Len(cl_nanos) < ClusterCount
       THEN Bail(h, "pulse_slice_fast_open", <<chans, cl_nanos, preset_state>>,
                 Panic("range end index out of range"))
       ELSE LET actual_cl_nanos == first_eight(cl_nanos) IN
            \E res \in UnitResults :
                Invoke(h, "pulse_slice_fast_open", <<chans, cl_nanos, preset_state>>,
                       "pulse_slice_fast_open",
                       <<chans, actual_cl_nanos, preset_state>>, res,
                       OkSlfOrErr(h, res))
    /\ UNCHANGED <<opened, waiting, picked>>

pulse_all(h, voltage, nanos, order) ==
    /\ Callable(h)
    /\ \E res \in UnitResults :
        Invoke(h, "pulse_all", <<voltage, nanos, order>>, "pulse_all",
               <<voltage, nanos, BiasOrder_from_Py(order)>>, res, OkSlfOrErr(h, res))
    /\ UNCHANGED <<opened, waiting, picked>>

pulseread_one(h, low, high, vpulse, nanos, vread) ==
    /\ Callable(h)
    /\ \E res \in OneResults :
        Invoke(h, "pulseread_one", <<low, high, vpulse, nanos, vread>>,
               "pulseread_one", <<low, high, vpulse, nanos, vread>>, res, unwrap(res))
    /\ UNCHANGED <<opened, waiting, picked>>

pulseread_slice(h, chan, vpulse, nanos, vread) ==
    /\ Callable(h)
    /\ \E res \in SliceResults :
        LET data == unwrap(res) IN
        Invoke(h, "pulseread_slice", <<chan, vpulse, nanos, vread>>,
               "pulseread_slice", <<chan, vpulse, nanos, vread>>, res,
               IF data.kind = "ok" THEN Return(Array_from(data.value)) ELSE data)
    /\ UNCHANGED <<opened, waiting, picked>>

pulseread_slice_masked(h, chan, mask, vpulse, nanos, vread) ==
    /\ Callable(h)
    /\ LET slice == unwrap(as_slice(mask)) IN
        IF slice.kind # "ok"
        THEN Bail(h, "pulseread_slice_masked", <<chan, mask, vpulse, nanos, vread>>,
                  slice)
        ELSE \E res \in SliceResults :
            LET data == unwrap(res) IN
            Invoke(h, "pulseread_slice_masked", <<chan, mask, vpulse, nanos, vread>>,
                   "pulseread_slice_masked",
                   <<chan, slice.value, vpulse, nanos, vread>>, res,
                   IF data.kind = "ok" THEN Return(Array_from(data.value)) ELSE data)
    /\ UNCHANGED <<opened, waiting, picked>>

pulseread_all(h, vpulse, nanos, vread, order) ==
    /\ Callable(h)
    /\ \E res \in AllResults :
        LET data == unwrap(res)
            array == IF data.kind = "ok"
                     THEN unwrap(Array_from_shape_vec(NRows, NCols, data.value))
                     ELSE data
        IN Invoke(h, "pulseread_all", <<vpulse, nanos, vread, order>>,
                  "pulseread_all",
                  <<vpulse, nanos, vread, BiasOrder_from_Py(order)>>, res, array)
    /\ UNCHANGED <<opened, waiting, picked>>

vread_channels(h, chans, averaging) ==
    /\ Callable(h)
    /\ LET slice == unwrap(as_slice(chans)) IN
        IF slice.kind # "ok"
        THEN Bail(h, "vread_channels", <<chans, averaging>>, slice)
        ELSE \E res \in SliceResults :
            Invoke(h, "vread_channels", <<chans, averaging>>, "vread_channels",
                   <<slice.value, averaging>>, res, unwrap(res))
    /\ UNCHANGED <<opened, waiting, picked>>

execute(h) ==
    /\ Callable(h)
    /\ \E res \in UnitResults :
        Invoke(h, "execute", << >>, "execute", << >>, res, OkSlfOrErr(h, res))
    /\ UNCHANGED <<opened, waiting, picked>>

busy(h) ==
    /\ Callable(h)
    /\ LET b == Instrument_busy(inst[h]) IN
        Invoke(h, "busy", << >>, "busy", << >>, Ok(b), Return(b))
    /\ UNCHANGED <<opened, waiting, picked>>

\* wait blocks inside the native call: the call is entered here ...
wait_enter(h) ==
    /\ Callable(h)
    /\ waiting' = h
    /\ UNCHANGED <<opened, inst, last, picked, trace>>

\* ... and comes back once the instrument has consumed what was written
wait_at_once(h) ==
    /\ waiting = h
    /\ Invoke(h, "wait", << >>, "wait", << >>, Ok(Unit), Return(Unit))
    /\ waiting' = 0
    /\ UNCHANGED <<opened, picked>>

wait(h) ==
    /\ waiting = h
    /\ ~Instrument_busy(inst[h])
    /\ Invoke(h, "wait", << >>, "wait", << >>, Ok(Unit), Return(Unit))
    /\ waiting' = 0
    /\ UNCHANGED <<opened, picked>>

set_control_mode(h, mode) ==
    /\ Callable(h)
    /\ \E res \in UnitResults :
        Invoke(h, "set_control_mode", <<mode>>, "set_control_mode",
               <<ControlMode_from_Py(mode)>>, res, OkSlfOrErr(h, res))
    /\ UNCHANGED <<opened, waiting, picked>>

\* IOMask::from_vals(&[mask])
IOMask_from_vals(vals) == [words |-> vals]

set_logic(h, mask) ==
    /\ Callable(h)
    /\ LET iomask == IOMask_from_vals(<<mask>>) IN
        \E res \in UnitResults :
            Invoke(h, "set_logic", <<mask>>, "set_logic", <<iomask>>, res,
                   OkSlfOrErr(h, res))
    /\ UNCHANGED <<opened, waiting, picked>>

currents_from_address(h, addr, chans) ==
    /\ Callable(h)
    /\ LET slice == unwrap(as_slice(chans)) IN
        IF slice.kind # "ok"
        THEN Bail(h, "currents_from_address", <<addr, chans>>, slice)
        ELSE \E res \in SliceResults :
            Invoke(h, "currents_from_address", <<addr, chans>>,
                   "currents_from_address", <<addr, slice.value>>, res,
                   IF res.ok THEN Return(Array_from(res.val))
                   ELSE ArC2Error_new_exception(res.val))
    /\ UNCHANGED <<opened, waiting, picked>>

word_currents_from_address(h, addr) ==
    /\ Callable(h)
    /\ \E res \in SliceResults :
        Invoke(h, "word_currents_from_address", <<addr>>,
               "word_currents_from_address", <<addr>>, res,
               IF res.ok THEN Return(Array_from(res.val))
               ELSE ArC2Error_new_exception(res.val))
    /\ UNCHANGED <<opened, waiting, picked>>

bit_currents_from_address(h, addr) ==
    /\ Callable(h)
    /\ \E res \in SliceResults :
        Invoke(h, "bit_currents_from_address", <<addr>>,
               "bit_currents_from_address", <<addr>>, res,
               IF res.ok THEN Return(Array_from(res.val))
               ELSE ArC2Error_new_exception(res.val))
    /\ UNCHANGED <<opened, waiting, picked>>

generate_ramp(h, low, high, vstart, vstep, vstop, pw_nanos, inter_nanos, num_pulses, read_at, read_after) ==
    /\ Callable(h)
    /\ \E res \in UnitResults :
        Invoke(h, "generate_ramp",
               <<low, high, vstart, vstep, vstop, pw_nanos, inter_nanos,
                 num_pulses, read_at, read_after>>,
               "generate_ramp",
               <<low, high, vstart, vstep, vstop, pw_nanos, inter_nanos,
                 num_pulses, ReadAt_from_Py(read_at), ReadAfter_from_Py(read_after)>>,
               res, OkSlfOrErr(h, res))
    /\ UNCHANGED <<opened, waiting, picked>>

generate_read_train(h, lows, highs, vread, nreads, inter_nanos, ground) ==
    /\ Callable(h)
    /\ LET high_chans == unwrap(as_slice(highs))
           low_chans == IF lows.some THEN unwrap(as_slice(lows.v)) ELSE Return(<< >>)
           a == <<lows, highs, vread, nreads, inter_nanos, ground>>
       IN IF high_chans.kind # "ok" THEN Bail(h, "generate_read_train", a, high_chans)
          ELSE IF low_chans.kind # "ok" THEN Bail(h, "generate_read_train", a, low_chans)
          ELSE \E res \in UnitResults :
              Invoke(h, "generate_read_train", a, "generate_read_train",
                     <<low_chans.value, high_chans.value, vread, nreads,
                       inter_nanos, ground>>,
                     res, OkSlfOrErr(h, res))
    /\ UNCHANGED <<opened, waiting, picked>>

generate_vread_train(h, uchans, averaging, npulses, inter_nanos) ==
    /\ Callable(h)
    /\ LET chans == unwrap(as_slice(uchans))
           a == <<uchans, averaging, npulses, inter_nanos>>
       IN IF chans.kind # "ok" THEN Bail(h, "generate_vread_train", a, chans)
          ELSE \E res \in UnitResults :
              Invoke(h, "generate_vread_train", a, "generate_vread_train",
                     <<chans.value, averaging, npulses, inter_nanos>>, res,
                     OkSlfOrErr(h, res))
    /\ UNCHANGED <<opened, waiting, picked>>

read_train(h, low, high, vread, interpulse, preload, condition) ==
    /\ Callable(h)
    /\ \E res \in UnitResults :
        Invoke(h, "read_train", <<low, high, vread, interpulse, preload, condition>>,
               "read_train",
               <<low, high, vread, interpulse, preload, WaitFor_from_Py(condition)>>,
               res,
               IF res.ok THEN Return(Unit) ELSE ArC2Error_new_exception(res.val))
    /\ UNCHANGED <<opened, waiting, picked>>

pick_one(h, mode, rtype) ==
    /\ Callable(h)
    /\ LET nmode == DataMode_from_Py(mode)
           nrtype == ReadType_from_Py(rtype)
       IN \E res \in {Ok(Instrument_pick_one(inst[h], nmode, nrtype))}
                        \cup {Err(e) : e \in NativeErrors} :
            /\ Invoke(h, "pick_one", <<mode, rtype>>, "pick_one", <<nmode, nrtype>>,
                      res,
                      IF res.ok
                      THEN IF res.val.some THEN Return(Some(Array_from(res.val.v)))
                           ELSE Return(None)
                      ELSE ArC2Error_new_exception(res.val))
            /\ picked' = IF res.ok /\ res.val.some
                         THEN [picked EXCEPT ![h] = Append(@, SlabOf(res.val.v))]
                         ELSE picked
    /\ UNCHANGED <<opened, waiting>>

py_find_ids ==
    /\ waiting = 0
    /\ \E res \in IdsResults :
        last' = [method |-> "find_ids", handle |-> 0, args |-> << >>,
                 native |-> <<NCall("find_ids", << >>, res)>>,
                 outcome |-> OkValOrErr(res)]
    /\ UNCHANGED <<opened, inst, waiting, picked, trace>>

\* ReadAfter.from_str(r)
ReadAfter_from_str(r) ==
    /\ waiting = 0
    /\ last' = [method |-> "ReadAfter.from_str", handle |-> 0, args |-> <<r>>,
                native |-> << >>, outcome |-> PyReadAfter_from_str(r)]
    /\ UNCHANGED <<opened, inst, waiting, picked, trace>>

\* the ways a ReadAt directive is created
ReadAtCtors ==
    {[ctor |-> "Bias", self |-> PyReadAt_Bias], [ctor |-> "Never", self |-> PyReadAt_Never]}
    \cup {[ctor |-> "Arb", voltage |-> v, self |-> PyReadAt_Arb(v)] : v \in Voltages}

\* ReadAt.<ctor>.voltage()
ReadAt_voltage(made) ==
    /\ waiting = 0
    /\ last' = [method |-> "ReadAt.voltage", handle |-> 0, args |-> <<made>>,
                native |-> << >>, outcome |-> PyReadAt_voltage(made.self)]
    /\ UNCHANGED <<opened, inst, waiting, picked, trace>>

\* ------------------------------------------------------------ the instrument
\* the instrument consumes a command that was written to it
Consume(h) ==
    /\ h \in opened
    /\ inst[h].hw > 0
    /\ inst' = [inst EXCEPT ![h].hw = @ - 1]
    /\ UNCHANGED <<opened, last, waiting, picked, trace>>

\* a long running operation leaves a slab in the output buffer
Produce(h) ==
    /\ h \in opened
    /\ inst[h].next <= MaxSlabs
    /\ inst' = [inst EXCEPT ![h].next = @ + 1]
    /\ UNCHANGED <<opened, last, waiting, picked, trace>>

\* ----------------------------------------------------------- specification
ConfigInputs == {<<<<0, 2>>, <<33, 1>>>>}
AuxInputs == {<<<<PyAuxDACFn_SELL, 0>>, <<PyAuxDACFn_SELH, 3>>>>}
OptVolts == {None, Some(1)}
PulseChans == {<<<<0, 2, 0>>>>}
PyWaitForValues == {PyWaitFor_Iterations(2)}
OptArrays == {None} \cup {Some(a) : a \in Arrays}

Next ==
    \/ \E h \in Handles, id \in DeviceIds, fw \in Firmwares : new(h, id, fw)
    \/ \E h \in Handles, nanos \in Nanos : delay(h, nanos)
    \/ \E h \in Handles : ground_all(h)
    \/ \E h \in Handles : ground_all_fast(h)
    \/ \E h \in Handles, chans \in Arrays : connect_to_gnd(h, chans)
    \/ \E h \in Handles : float_all(h)
    \/ \E h \in Handles, channels \in ChanLists : open_channels(h, channels)
    \/ \E h \in Handles, input \in ConfigInputs, base \in OptVolts :
        config_channels(h, input, base)
    \/ \E h \in Handles, voltages \in AuxInputs : config_aux_channels(h, voltages)
    \/ \E h \in Handles, selectors \in ChanLists : config_selectors(h, selectors)
    \/ \E h \in Handles, low \in Channels, high \in Channels :
        read_one(h, low, high, 1)
    \/ \E h \in Handles, chan \in Channels : read_slice(h, chan, 1)
    \/ \E h \in Handles, chan \in Channels, mask \in Arrays :
        read_slice_masked(h, chan, mask, 1)
    \/ \E h \in Handles, order \in PyBiasOrderValues : read_all(h, 1, order)
    \/ \E h \in Handles, highs \in Arrays, ground_after \in OptBools :
        read_slice_open(h, highs, ground_after)
    \/ \E h \in Handles, low \in Channels, high \in Channels, nanos \in Nanos :
        pulse_one(h, low, high, 2, nanos)
    \/ \E h \in Handles, chan \in Channels, nanos \in Nanos :
        pulse_slice(h, chan, 2, nanos)
    \/ \E h \in Handles, chan \in Channels, mask \in Arrays :
        pulse_slice_masked(h, chan, 2, 100, mask)
    \/ \E h \in Handles, chans \in PulseChans, cl_nanos \in ClNanosInputs,
          preset_state \in {TRUE} :
        pulse_slice_fast_open(h, chans, cl_nanos, preset_state)
    \/ \E h \in Handles, order \in PyBiasOrderValues : pulse_all(h, 2, 100, order)
    \/ \E h \in Handles, low \in Channels, high \in Channels :
        pulseread_one(h, low, high, 2, 100, 1)
    \/ \E h \in Handles, chan \in Channels : pulseread_slice(h, chan, 2, 100, 1)
    \/ \E h \in Handles, chan \in Channels, mask \in Arrays :
        pulseread_slice_masked(h, chan, mask, 2, 100, 1)
    \/ \E h \in Handles, order \in PyBiasOrderValues :
        pulseread_all(h, 2, 100, 1, order)
    \/ \E h \in Handles, chans \in Arrays, averaging \in {TRUE} :
        vread_channels(h, chans, averaging)
    \/ \E h \in Handles : execute(h)
    \/ \E h \in Handles : busy(h)
    \/ \E h \in Handles : wait_enter(h)
    \/ \E h \in Handles : wait(h)
    \/ \E h \in Handles, mode \in PyControlModeValues : set_control_mode(h, mode)
    \/ \E h \in Handles, mask \in Masks : set_logic(h, mask)
    \/ \E h \in Handles, addr \in Addrs, chans \in Arrays :
        currents_from_address(h, addr, chans)
    \/ \E h \in Handles, addr \in Addrs : word_currents_from_address(h, addr)
    \/ \E h \in Handles, addr \in Addrs : bit_currents_from_address(h, addr)
    \/ \E h \in Handles, read_at \in {PyReadAt_Arb(1)}, read_after \in {PyReadAfter_Pulse} :
        generate_ramp(h, 0, 33, 0, 1, 2, 100, 0, 1, read_at, read_after)
    \/ \E h \in Handles, lows \in OptArrays, highs \in Arrays, ground \in {TRUE} :
        generate_read_train(h, lows, highs, 1, 2, 0, ground)
    \/ \E h \in Handles, uchans \in Arrays, averaging \in {TRUE} :
        generate_vread_train(h, uchans, averaging, 2, 0)
    \/ \E h \in Handles, preload \in OptVolts, condition \in PyWaitForValues :
        read_train(h, 0, 33, 1, 100, preload, condition)
    \/ \E h \in Handles, mode \in PyDataModeValues, rtype \in PyReadTypeValues :
        pick_one(h, mode, rtype)
    \/ py_find_ids
    \/ \E r \in ReadAfterStrings : ReadAfter_from_str(r)
    \/ \E made \in ReadAtCtors : ReadAt_voltage(made)
    \/ \E h \in Handles : Consume(h)

Spec == Init /\ [][Next]_vars

\* the output buffer at work: long running operations leave slabs in it
\* and pick_one takes them out
NextPick ==
    \/ \E h \in Handles, id \in DeviceIds, fw \in Firmwares : new(h, id, fw)
    \/ \E h \in Handles, preload \in OptVolts, condition \in PyWaitForValues :
        read_train(h, 0, 33, 1, 100, preload, condition)
    \/ \E h \in Handles : Produce(h)
    \/ \E h \in Handles, mode \in PyDataModeValues, rtype \in PyReadTypeValues :
        pick_one(h, mode, rtype)

SpecPick == Init /\ [][NextPick]_vars

\* ------------------------------------------------------------ the claims
Chainable ==
    {"delay", "ground_all", "ground_all_fast", "connect_to_gnd", "float_all",
     "open_channels", "config_channels", "config_aux_channels",
     "config_selectors", "pulse_one", "pulse_slice", "pulse_slice_masked",
     "pulse_slice_fast_open", "pulse_all", "execute", "set_control_mode",
     "set_logic", "generate_ramp", "generate_read_train", "generate_vread_train"}

Reads ==
    {"read_one", "read_slice", "read_slice_masked", "read_all", "read_slice_open",
     "pulseread_one", "pulseread_slice", "pulseread_slice_masked",
     "pulseread_all", "vread_channels"}

MemoryAccessors ==
    {"currents_from_address", "word_currents_from_address",
     "bit_currents_from_address"}

InstrumentMethods ==
    Chainable \cup Reads \cup MemoryAccessors
        \cup {"new", "busy", "wait", "read_train", "pick_one"}

\* the native method a wrapper method stands for
NativeOf(m) ==
    CASE m = "delay" -> "add_delay"
      [] m = "new" -> "open_with_fw"
      [] OTHER -> m

\* the numpy array arguments of a call
ArrayArgs(call) ==
    CASE call.method \in {"connect_to_gnd", "read_slice_open", "vread_channels",
                          "generate_vread_train"} -> {call.args[1]}
      [] call.method \in {"read_slice_masked", "pulseread_slice_masked",
                          "currents_from_address"} -> {call.args[2]}
      [] call.method = "pulse_slice_masked" -> {call.args[4]}
      [] call.method = "generate_read_train" ->
            {call.args[2]} \cup (IF call.args[1].some THEN {call.args[1].v} ELSE {})
      [] OTHER -> {}

\* C1 (as claimed): whenever the native call of an InstrumentLL method or of
\* find_ids answers with an error, the caller receives an ArC2Error that
\* carries that error.
C1_NativeErrorBecomesArC2Error ==
    (last.method \in InstrumentMethods \cup {"find_ids"}) =>
        \A i \in 1..Len(last.native) :
            ~last.native[i].res.ok =>
                /\ last.outcome.kind = "ArC2Error"
                /\ last.outcome.value = last.native[i].res.val

\* C2 (as claimed): every call of an InstrumentLL method makes exactly one
\* invocation, of the corresponding native method.
C2_ExactlyOneNative ==
    (last.method \in InstrumentMethods) =>
        /\ Len(last.native) = 1
        /\ last.native[1].name = NativeOf(last.method)

\* the wrapper turns the call down before it reaches the native method
RejectedEarly(call) ==
    \/ call.method = "pulse_slice_fast_open" /\ Len(call.args[2]) # 8
    \/ \E a \in ArrayArgs(call) : ~a.contiguous

\* C2 (amended): a call of an InstrumentLL method makes exactly one native
\* invocation, of the corresponding native method, unless the wrapper turns
\* the arguments down first (pulse_slice_fast_open with a timing list that is
\* not 8 long, a numpy array argument that is not contiguous); then it makes
\* none.
C2_OneNativeUnlessRejected ==
    (last.method \in InstrumentMethods) =>
        IF RejectedEarly(last)
        THEN /\ last.native = << >>
             /\ last.outcome.kind \in {"ValueError", "PanicException"}
        ELSE /\ Len(last.native) = 1
             /\ last.native[1].name = NativeOf(last.method)

C2_Witness ==
    /\ last.method = "generate_read_train"
    /\ last.args[1].some
    /\ Len(last.native) = 1
    /\ last.native[1].name = "generate_read_train"
    /\ ~last.native[1].res.ok

\* C3: pulse_slice_fast_open raises ValueError exactly when cl_nanos is not 8
\* long and then makes no native call and leaves the instrument as it was;
\* with 8 timings it raises no ValueError and hands the 8 timings, None
\* entries included, to the native method in the same order.
C3_State ==
    (last.method = "pulse_slice_fast_open") =>
        IF Len(last.args[2]) # 8
        THEN /\ last.outcome.kind = "ValueError"
             /\ last.native = << >>
        ELSE /\ last.outcome.kind # "ValueError"
             /\ Len(last.native) = 1
             /\ last.native[1].name = "pulse_slice_fast_open"
             /\ last.native[1].args[2] = last.args[2]

C3_Step ==
    (/\ last' # last
     /\ last'.method = "pulse_slice_fast_open"
     /\ last'.outcome.kind = "ValueError") => inst' = inst

C3_ClusterTimings == [](C3_State) /\ [][C3_Step]_vars

C3_Witness ==
    /\ last.method = "pulse_slice_fast_open"
    /\ Len(last.args[2]) = 8
    /\ ~last.args[2][3].some
    /\ last.outcome.kind = "ok"
    /\ ~last.native[1].args[2][3].some
    /\ last.native[1].args[2][8] = Some(80)

\* C4: a chainable command method whose native call succeeds returns the
\* handle it was called on, and a call touches no other handle's instrument.
C4_State ==
    (last.method \in Chainable /\ last.outcome.kind = "ok") =>
        /\ last.outcome.value = last.handle
        /\ last.native[1].res.ok

C4_Step ==
    (last' # last /\ last'.method \in Chainable) =>
        \A g \in Handles \ {last'.handle} : inst'[g] = inst[g]

C4_ReturnsSameHandle == [](C4_State) /\ [][C4_Step]_vars

C4_Witness ==
    /\ last.method = "open_channels"
    /\ last.handle = NumHandles
    /\ last.outcome.kind = "ok"
    /\ last.outcome.value = NumHandles
    /\ inst[NumHandles].buffer = 1

\* C5: no chainable command method other than execute invokes the native
\* execute; its command stays in the command buffer and nothing is written
\* to the instrument.
C5_State ==
    (last.method \in Chainable \ {"execute"}) =>
        \A i \in 1..Len(last.native) : last.native[i].name # "execute"

C5_Step ==
    (last' # last /\ last'.method \in Chainable \ {"execute"}) =>
        /\ inst'[last'.handle].hw = inst[last'.handle].hw
        /\ inst'[last'.handle].buffer >= inst[last'.handle].buffer

C5_OnlyExecuteFlushes == [](C5_State) /\ [][C5_Step]_vars

C5_Witness ==
    /\ last.method = "set_logic"
    /\ last.outcome.kind = "ok"
    /\ inst[last.handle].buffer = 1
    /\ inst[last.handle].hw = 0

\* C6: ReadAfter.from_str gives Pulse, Ramp, Block, Never for exactly
\* "pulse", "ramp", "block", "never" and raises ValueError for every other
\* string.
C6_FromStr ==
    (last.method = "ReadAfter.from_str") =>
        LET r == last.args[1]
            out == last.outcome
            Gives(v) == out.kind = "ok" /\ out.value._inner = v
        IN /\ (r = "pulse") <=> Gives("Pulse")
           /\ (r = "ramp") <=> Gives("Ramp")
           /\ (r = "block") <=> Gives("Block")
           /\ (r = "never") <=> Gives("Never")
           /\ (r \notin {"pulse", "ramp", "block", "never"}) <=> (out.kind = "ValueError")

C6_Witness ==
    /\ last.method = "ReadAfter.from_str"
    /\ last.args[1] = "Pulse"
    /\ last.outcome.kind = "ValueError"

\* C7: ReadAt.voltage returns a value if and only if the directive was made
\* with ReadAt.Arb(voltage), and then that voltage; for Bias and Never it
\* raises an exception.
C7_Voltage ==
    (last.method = "ReadAt.voltage") =>
        LET made == last.args[1] IN
        IF made.ctor = "Arb"
        THEN last.outcome.kind = "ok" /\ last.outcome.value = made.voltage
        ELSE last.outcome.kind = "Exception"

C7_Witness ==
    /\ last.method = "ReadAt.voltage"
    /\ last.args[1].ctor = "Bias"
    /\ last.outcome.kind = "Exception"

\* C8: the ground flag read_slice_open hands to the native read_slice_open
\* is True when ground_after is True or None and False only when it is False.
C8_GroundAfter ==
    (last.method = "read_slice_open" /\ last.native # << >>) =>
        LET ground_after == last.args[2]
            isFalse == ground_after.some /\ ~ground_after.v
        IN /\ last.native[1].name = "read_slice_open"
           /\ last.native[1].args[2] = ~isFalse

C8_Witness ==
    /\ last.method = "read_slice_open"
    /\ ~last.args[2].some
    /\ last.native # << >>
    /\ last.native[1].args[2] = TRUE

\* C9: what read_all and pulseread_all return is a 32x32 array whose element
\* (r, c) is element 32 * r + c of the flat native data, whatever the bias
\* order.
C9_RowMajor ==
    (last.method \in {"read_all", "pulseread_all"} /\ last.outcome.kind = "ok") =>
        /\ last.outcome.value.shape = <<32, 32>>
        /\ Len(last.native[1].res.val) = 32 * 32
        /\ \A r \in 0..31, c \in 0..31 :
            At(last.outcome.value, r, c) = last.native[1].res.val[32 * r + c + 1]

C9_Witness ==
    /\ last.method = "pulseread_all"
    /\ last.args[4] = PyBiasOrder_Cols
    /\ last.native[1].args[4] = "Columns"
    /\ last.outcome.kind = "ok"
    /\ At(last.outcome.value, 1, 0) = 32
    /\ At(last.outcome.value, 0, 1) = 1

NextWait ==
    \/ \E h \in Handles, id \in DeviceIds, fw \in Firmwares : new(h, id, fw)
    \/ \E h \in Handles, nanos \in Nanos : delay(h, nanos)
    \/ \E h \in Handles : execute(h)
    \/ \E h \in Handles : busy(h)
    \/ \E h \in Handles : wait_enter(h)
    \/ \E h \in Handles : wait(h)
    \/ \E h \in Handles : Consume(h)

SpecWait ==
    /\ Init
    /\ [][NextWait]_vars
    /\ \A h \in Handles : WF_vars(Consume(h)) /\ WF_vars(wait(h))

\* C11: wait returns only when the instrument is not busy, and a wait that
\* was entered returns in the end, given that the instrument keeps consuming
\* what was written to it.
C11_ReturnsIdle ==
    (last.method = "wait") =>
        /\ ~Instrument_busy(inst[last.handle])
        /\ last.native = <<NCall("wait", << >>, Ok(Unit))>>

C11_Step ==
    (waiting # 0 /\ waiting' = 0) =>
        /\ last'.method = "wait"
        /\ last'.handle = waiting
        /\ ~Instrument_busy(inst'[waiting])

InitOrder ==
    /\ opened = Handles
    /\ inst = [h \in Handles |-> InstrumentInit]
    /\ last = NoCall
    /\ waiting = 0
    /\ picked = [h \in Handles |-> << >>]
    /\ trace = [on |-> TRUE, calls |-> << >>, natives |-> << >>]

NextOrder ==
    \/ \E h \in Handles, nanos \in Nanos : delay(h, nanos)
    \/ \E h \in Handles, chans \in Arrays : connect_to_gnd(h, chans)
    \/ \E h \in Handles, low \in Channels, high \in Channels :
        read_one(h, low, high, 1)
    \/ \E h \in Handles, chans \in PulseChans,
          cl_nanos \in {ClNanos(ClusterCount, 0), ClNanos(ClusterCount - 1, 0)} :
        pulse_slice_fast_open(h, chans, cl_nanos, TRUE)
    \/ \E h \in Handles : execute(h)
    \/ \E h \in Handles : Consume(h)

SpecOrder == InitOrder /\ [][NextOrder]_vars

\* the native invocations a sequence of wrapper calls stands for, in order
RECURSIVE ExpectedNatives(_)
ExpectedNatives(calls) ==
    IF calls = << >> THEN << >>
    ELSE LET n == Len(calls)
             call == calls[n]
         IN ExpectedNatives(SubSeq(calls, 1, n - 1)) \o
            (IF RejectedEarly(call) THEN << >>
             ELSE <<[handle |-> call.handle, name |-> NativeOf(call.method)]>>)

\* the entries of a trace that belong to handle h
OfHandle(seq, h) == SelectSeq(seq, LAMBDA e : e.handle = h)

\* C12: the native methods are invoked in the order in which the wrapper
\* methods were called, on the whole and on every single handle: no
\* invocation is moved, merged, held back or made again.
C12_SameOrder ==
    trace.on =>
        /\ trace.natives = ExpectedNatives(trace.calls)
        /\ \A h \in Handles :
            OfHandle(trace.natives, h) = ExpectedNatives(OfHandle(trace.calls, h))
        /\ (trace.calls # << >>) =>
            /\ last.method = trace.calls[Len(trace.calls)].method
            /\ last.handle = trace.calls[Len(trace.calls)].handle

C12_Witness ==
    /\ trace.on
    /\ Len(trace.calls) = 3
    /\ trace.calls[1].method = "delay"
    /\ trace.calls[2].method = "pulse_slice_fast_open"
    /\ trace.calls[3].method = "execute"
    /\ trace.calls[1].handle = trace.calls[3].handle
    /\ trace.natives = <<[handle |-> trace.calls[1].handle, name |-> "add_delay"],
                         [handle |-> trace.calls[1].handle, name |-> "execute"]>>

\* ------------------------------------------------------------ mirror enums
\* the class attributes of the mirror enums
ClassAttrs ==
    {[cls |-> "BiasOrder", attr |-> "Rows", value |-> PyBiasOrder_Rows],
     [cls |-> "BiasOrder", attr |-> "Cols", value |-> PyBiasOrder_Cols],
     [cls |-> "ControlMode", attr |-> "Header", value |-> PyControlMode_Header],
     [cls |-> "ControlMode", attr |-> "Internal", value |-> PyControlMode_Internal],
     [cls |-> "DataMode", attr |-> "Words", value |-> PyDataMode_Words],
     [cls |-> "DataMode", attr |-> "Bits", value |-> PyDataMode_Bits],
     [cls |-> "DataMode", attr |-> "All", value |-> PyDataMode_All],
     [cls |-> "ReadType", attr |-> "Current", value |-> PyReadType_Current],
     [cls |-> "ReadType", attr |-> "Voltage", value |-> PyReadType_Voltage],
     [cls |-> "ReadAfter", attr |-> "Pulse", value |-> PyReadAfter_Pulse],
     [cls |-> "ReadAfter", attr |-> "Ramp", value |-> PyReadAfter_Ramp],
     [cls |-> "ReadAfter", attr |-> "Block", value |-> PyReadAfter_Block],
     [cls |-> "ReadAfter", attr |-> "Never", value |-> PyReadAfter_Never],
     [cls |-> "AuxDACFn", attr |-> "SELL", value |-> PyAuxDACFn_SELL],
     [cls |-> "AuxDACFn", attr |-> "SELH", value |-> PyAuxDACFn_SELH],
     [cls |-> "AuxDACFn", attr |-> "ARB1", value |-> PyAuxDACFn_ARB1],
     [cls |-> "AuxDACFn", attr |-> "ARB2", value |-> PyAuxDACFn_ARB2],
     [cls |-> "AuxDACFn", attr |-> "ARB3", value |-> PyAuxDACFn_ARB3],
     [cls |-> "AuxDACFn", attr |-> "ARB4", value |-> PyAuxDACFn_ARB4],
     [cls |-> "AuxDACFn", attr |-> "CREF", value |-> PyAuxDACFn_CREF],
     [cls |-> "AuxDACFn", attr |-> "CSET", value |-> PyAuxDACFn_CSET]}

\* the native variants the wrapper names
NativeVariants ==
    {<<"BiasOrder", "Rows">>, <<"BiasOrder", "Columns">>,
     <<"ControlMode", "Header">>, <<"ControlMode", "Internal">>,
     <<"DataMode", "Words">>, <<"DataMode", "Bits">>, <<"DataMode", "All">>,
     <<"ReadType", "Current">>, <<"ReadType", "Voltage">>,
     <<"ReadAfter", "Pulse">>, <<"ReadAfter", "Ramp">>, <<"ReadAfter", "Block">>,
     <<"ReadAfter", "Never">>,
     <<"AuxDACFn", "SELL">>, <<"AuxDACFn", "SELH">>, <<"AuxDACFn", "ARB1">>,
     <<"AuxDACFn", "ARB2">>, <<"AuxDACFn", "ARB3">>, <<"AuxDACFn", "ARB4">>,
     <<"AuxDACFn", "CREF">>, <<"AuxDACFn", "CSET">>}

\* impl From<Py..> for the native enum
into_native(cls, py) ==
    CASE cls = "BiasOrder" -> BiasOrder_from_Py(py)
      [] cls = "ControlMode" -> ControlMode_from_Py(py)
      [] cls = "DataMode" -> DataMode_from_Py(py)
      [] cls = "ReadType" -> ReadType_from_Py(py)
      [] cls = "ReadAfter" -> ReadAfter_from_Py(py)
      [] cls = "AuxDACFn" -> AuxDACFn_from_Py(py)

\* impl From<native enum> for Py..
into_py(cls, native) ==
    CASE cls = "BiasOrder" -> PyBiasOrder_from(native)
      [] cls = "ControlMode" -> PyControlMode_from(native)
      [] cls = "DataMode" -> PyDataMode_from(native)
      [] cls = "ReadType" -> PyReadType_from(native)
      [] cls = "ReadAfter" -> PyReadAfter_from(native)
      [] cls = "AuxDACFn" -> PyAuxDACFn_from(native)

\* two class attributes of one enum are read, turned into native variants
\* and the first of them back into a wrapper
class_attr(a, b) ==
    /\ waiting = 0
    /\ a.cls = b.cls
    /\ last' = [method |-> "class_attr", handle |-> 0,
                args |-> <<a.cls, a.attr, b.attr>>, native |-> << >>,
                outcome |-> Return([wrapped |-> a.value,
                                    native |-> into_native(a.cls, a.value),
                                    other |-> into_native(a.cls, b.value),
                                    back |-> into_py(a.cls, into_native(a.cls, a.value))])]
    /\ UNCHANGED <<opened, inst, waiting, picked, trace>>

\* a native variant is wrapped and turned back into a native variant
from_native(cls, variant) ==
    /\ waiting = 0
    /\ last' = [method |-> "from_native", handle |-> 0,
                args |-> <<cls, variant>>, native |-> << >>,
                outcome |-> Return([wrapped |-> into_py(cls, variant),
                                    back |-> into_native(cls, into_py(cls, variant))])]
    /\ UNCHANGED <<opened, inst, waiting, picked, trace>>

NextEnum ==
    \/ \E a \in ClassAttrs, b \in ClassAttrs : class_attr(a, b)
    \/ \E nv \in NativeVariants : from_native(nv[1], nv[2])
    \/ \E r \in ReadAfterStrings : ReadAfter_from_str(r)
    \/ \E made \in ReadAtCtors : ReadAt_voltage(made)

SpecEnum == Init /\ [][NextEnum]_vars

\* the native variant a class attribute is named after
ExpectedVariant(cls, attr) ==
    IF cls = "BiasOrder" /\ attr = "Cols" THEN "Columns" ELSE attr

\* C13: every class attribute of BiasOrder, ControlMode, DataMode, ReadType,
\* ReadAfter and AuxDACFn wraps the native variant it is named after
\* (BiasOrder.Cols wraps Columns), two attributes of one class wrap two
\* variants, and wrapper -> native -> wrapper and native -> wrapper -> native
\* give back what they started from.
C13_Mirror ==
    /\ (last.method = "class_attr") =>
        LET cls == last.args[1]
            o == last.outcome.value
        IN /\ o.native = ExpectedVariant(cls, last.args[2])
           /\ o.other = ExpectedVariant(cls, last.args[3])
           /\ (last.args[2] # last.args[3]) => (o.native # o.other)
           /\ o.back = o.wrapped
    /\ (last.method = "from_native") =>
        /\ last.outcome.value.back = last.args[2]
        /\ \E a \in ClassAttrs :
            a.cls = last.args[1] /\ a.value = last.outcome.value.wrapped

C13_Witness ==
    /\ last.method = "class_attr"
    /\ last.args = <<"BiasOrder", "Cols", "Rows">>
    /\ last.outcome.value.native = "Columns"
    /\ last.outcome.value.other = "Rows"
    /\ last.outcome.value.back = PyBiasOrder_Cols

====
